---- MODULE Spec2Model ----
(***************************************************************************)
(* The GibbsOpt constructor of libgibbs (optimizer/opt_Gibbs_ctor.cpp):    *)
(* it filters the active phases, builds the variable map, instantiates one *)
(* composition set per active phase, assembles the constraint list and the *)
(* fixed-index list, and pre-computes the constraint Jacobian, the         *)
(* constraint Hessian and the Hessian sparsity structure.                  *)
(*                                                                         *)
(* Every loop of the constructor is one action that performs one iteration *)
(* of it (or leaves the loop); pc names the loop the constructor is in and *)
(* it_i / it_j are its iterators.  An iteration of the Jacobian and of the *)
(* Hessian loop is one variable, with all of its inner loop.               *)
(*                                                                         *)
(* The numeric constants of the trees are integers (the targets of         *)
(* conditions.xfrac included); the code compares them as doubles.          *)
(***************************************************************************)
EXTENDS Integers, Sequences, FiniteSets, TLC

(***************************************************************************)
(* Bounds of the explored inputs.                                          *)
(***************************************************************************)
\* most sublattices a phase of the database has
MaxSubl == 2
\* most target mole fractions in conditions.xfrac
MaxTargets == 2

\* the phase names the database and the conditions may mention, in the
\* order std::map iterates over them (by name)
PhaseOrder == <<"ALPHA", "BETA">>
PhaseNames == {PhaseOrder[n] : n \in 1..Len(PhaseOrder)}
\* the species lists a sublattice may have
SublChoices == {<<"X", "Y">>, <<"X">>}
\* the values conditions.elements may have
ElementChoices == {<<>>, <<"X">>, <<"X", "Y">>}
\* the elements a target mole fraction may be given for, in key order
TargetOrder == <<"X", "Y", "Z", "ZZ">>
\* the number of minima LocateMinima may return for a phase
MinimaCounts == {0, 1, 2}
\* the shapes hessian_sparsity_structure may return for a composition set
SparsityShapes == {"none", "diagonal"}

Range(s) == {s[n] : n \in 1..Len(s)}

\* the element of a singleton; {F(x) : x \in {e}} evaluates e once before
\* F uses it, however often F refers to x
The(S) == CHOOSE x \in S : TRUE

(***************************************************************************)
(* Expression trees (boost::spirit::utree): a numeric constant, a variable *)
(* reference, or a binary operator with its two operands.                  *)
(***************************************************************************)
Num(n) == [op |-> "num", val |-> n, name |-> "", args |-> <<>>]
Var(s) == [op |-> "var", val |-> 0, name |-> s, args |-> <<>>]
Op(o, l, r) == [op |-> o, val |-> 0, name |-> "", args |-> <<l, r>>]
IsNum(t) == t.op = "num"

\* add_trees: root_tree becomes ("+" root_tree new_tree)
add_trees(root_tree, new_tree) == Op("+", root_tree, new_tree)

\* the sum of a list of trees, built left to right with add_trees
RECURSIVE SumTrees(_)
SumTrees(ts) ==
    IF ts = <<>> THEN Num(0)
    ELSE IF Len(ts) = 1 THEN ts[1]
    ELSE add_trees(SumTrees(SubSeq(ts, 1, Len(ts) - 1)), ts[Len(ts)])

\* the variable names a tree refers to
RECURSIVE TreeVars(_)
TreeVars(t) ==
    CASE t.op = "num" -> {}
      [] t.op = "var" -> {t.name}
      [] OTHER -> TreeVars(t.args[1]) \cup TreeVars(t.args[2])

(***************************************************************************)
(* differentiate_utree: the raw symbolic derivative, no simplification.    *)
(***************************************************************************)
RECURSIVE differentiate_utree(_, _)
differentiate_utree(t, v) ==
    CASE t.op = "num" -> Num(0)
      [] t.op = "var" -> IF t.name = v THEN Num(1) ELSE Num(0)
      [] t.op = "+" -> Op("+", differentiate_utree(t.args[1], v),
                               differentiate_utree(t.args[2], v))
      [] t.op = "-" -> Op("-", differentiate_utree(t.args[1], v),
                               differentiate_utree(t.args[2], v))
      [] t.op = "*" -> Op("+", Op("*", differentiate_utree(t.args[1], v), t.args[2]),
                               Op("*", t.args[1], differentiate_utree(t.args[2], v)))
      [] t.op = "/" -> Op("/", Op("-", Op("*", differentiate_utree(t.args[1], v), t.args[2]),
                                       Op("*", t.args[1], differentiate_utree(t.args[2], v))),
                               Op("*", t.args[2], t.args[2]))

(***************************************************************************)
(* simplify_utree: constant folding, additive and multiplicative           *)
(* identities, zero propagation through multiplication.                    *)
(***************************************************************************)
FoldConst(o, a, b) ==
    CASE o = "+" -> a + b
      [] o = "-" -> a - b
      [] o = "*" -> a * b
      [] o = "/" -> a \div b

\* a quotient of constants folds when it is a whole number (the numeric
\* constants of the model are integers)
Foldable(o, a, b) == o = "/" => (b # 0 /\ a % b = 0)

SimplifyNode(o, l, r) ==
    IF IsNum(l) /\ IsNum(r) /\ Foldable(o, l.val, r.val)
    THEN Num(FoldConst(o, l.val, r.val))
    ELSE IF o = "+" /\ l = Num(0) THEN r
    ELSE IF o = "+" /\ r = Num(0) THEN l
    ELSE IF o = "-" /\ r = Num(0) THEN l
    ELSE IF o = "*" /\ (l = Num(0) \/ r = Num(0)) THEN Num(0)
    ELSE IF o = "*" /\ l = Num(1) THEN r
    ELSE IF o = "*" /\ r = Num(1) THEN l
    ELSE IF o = "/" /\ l = Num(0) /\ r # Num(0) THEN Num(0)
    ELSE IF o = "/" /\ r = Num(1) THEN l
    ELSE Op(o, l, r)

RECURSIVE simplify_utree(_)
simplify_utree(t) ==
    IF t.op \in {"num", "var"} THEN t
    ELSE The({SimplifyNode(t.op, l, r) : l \in {simplify_utree(t.args[1])},
                                         r \in {simplify_utree(t.args[2])}})

\* is_zero_tree: the tree simplifies to the zero constant
is_zero_tree(t) == simplify_utree(t) = Num(0)

(***************************************************************************)
(* Variable names and the variable map.                                    *)
(***************************************************************************)
Digits == <<"0", "1", "2", "3", "4", "5", "6", "7", "8", "9">>
\* operator<< of an int on a stringstream (sublattice indices: one digit)
IntStr(n) == Digits[n + 1]
\* ss << phase << "_FRAC"
FracName(ph) == ph \o "_FRAC"
\* ss << phase << "_" << sublattice index << "_" << species
SiteName(ph, s, sp) == ph \o "_" \o IntStr(s) \o "_" \o sp

\* the species of a sublattice that are on the conditions' element list,
\* in the sublattice's order (subl_list)
Tracked(subl, elements) == SelectSeq(subl, LAMBDA k : k \in Range(elements))

RECURSIVE Flatten(_)
Flatten(ss) == IF ss = <<>> THEN <<>> ELSE Head(ss) \o Flatten(Tail(ss))

\* the site-fraction variable names of a phase, by sublattice then species
SiteNames(ph, struct, elements) ==
    Flatten([s \in 1..Len(struct) |->
        [k \in 1..Len(Tracked(struct[s], elements)) |->
            SiteName(ph, s - 1, Tracked(struct[s], elements)[k])]])

\* the variable names in the order build_variable_map numbers them: for
\* each active phase its phase fraction, then its site fractions
IndexOrder(phases, db, elements) ==
    Flatten([n \in 1..Len(phases) |->
        <<FracName(phases[n])>> \o SiteNames(phases[n], db[phases[n]], elements)])

\* build_variable_map: name -> index, contiguous from 0
build_variable_map(phases, db, cond) ==
    LET order == IndexOrder(phases, db, cond.elements)
    IN  [nm \in Range(order) |-> (CHOOSE n \in 1..Len(order) : order[n] = nm) - 1]

\* main_indices.left iterates by name: the phases by name, and within a
\* phase the site fractions ("<phase>_<digit>_...", by sublattice index,
\* then species) before "<phase>_FRAC", a digit sorting before 'F'
LeftOrder(phases, db, elements) ==
    Flatten([n \in 1..Len(phases) |->
        SiteNames(phases[n], db[phases[n]], elements) \o <<FracName(phases[n])>>])

(***************************************************************************)
(* The three kinds of constraint.                                          *)
(***************************************************************************)
Constraint(kind, key, subl, lhs, rhs) ==
    [kind |-> kind, key |-> key, subl |-> subl, lhs |-> lhs, rhs |-> rhs]

\* the sum of the phase fractions of the phases equals 1
PhaseFractionBalanceConstraint(phases) ==
    Constraint("PhaseFractionBalance", "", -1,
        SumTrees([n \in 1..Len(phases) |-> Var(FracName(phases[n]))]), Num(1))

\* the sum of the site fractions of the listed species in sublattice
\* subl of phase ph equals 1
SublatticeBalanceConstraint(ph, subl, subl_list) ==
    Constraint("SublatticeBalance", ph, subl,
        SumTrees([k \in 1..Len(subl_list) |-> Var(SiteName(ph, subl, subl_list[k]))]),
        Num(1))

\* the mole fraction of a species in a phase: the sum of its site fractions
\* over the sublattices of the phase that hold it, divided by the sum of
\* the site fractions of all the species of all the sublattices
mole_fraction(ph, struct, spec_name) ==
    Op("/",
       SumTrees(Flatten([s \in 1..Len(struct) |->
           IF spec_name \in Range(struct[s])
           THEN <<Var(SiteName(ph, s - 1, spec_name))>> ELSE <<>>])),
       SumTrees(Flatten([s \in 1..Len(struct) |->
           [k \in 1..Len(struct[s]) |-> Var(SiteName(ph, s - 1, struct[s][k]))]])))

\* the sum over the phases of phase fraction * mole fraction of the
\* species equals the target
MassBalanceConstraint(phases, db, spec_name, moles) ==
    Constraint("MassBalance", spec_name, -1,
        SumTrees([n \in 1..Len(phases) |->
            Op("*", Var(FracName(phases[n])),
                    mole_fraction(phases[n], db[phases[n]], spec_name))]),
        Num(moles))

\* ConstraintManager::addConstraint
addConstraint(cons, c) == Append(cons, c)

(***************************************************************************)
(* State.                                                                  *)
(***************************************************************************)
VARIABLES
    DB,                      \* phase name -> sublattices (each a species list)
    conditions,              \* [phases, elements, xfrac]
    pc,                      \* the stage of the constructor
    it_i, it_j,              \* the iterators of the current loop
    phase_col,               \* the active phases, by name
    opto_log,                \* the records logged above debug severity,
                             \* and the "minima detected" debug record
    main_indices,            \* variable name -> index
    comp_sets,               \* phase name -> composition set
    minima,                  \* phase name -> number of minima located
    comp_set_hess,           \* phase name -> the pairs its composition set
                             \* reported to the sparsity structure
    activephases,
    constraints,             \* cm.constraints
    fixed_indices,
    jac_g_trees,
    hess_sparsity_structure,
    constraint_hessian_data

vars == <<DB, conditions, pc, it_i, it_j, phase_col, opto_log, main_indices,
          comp_sets, minima, comp_set_hess, activephases, constraints,
          fixed_indices, jac_g_trees, hess_sparsity_structure,
          constraint_hessian_data>>

inputs == <<DB, conditions>>

\* the sublattice lists a database phase may have: ALPHA any list of
\* sublattice choices, the other phases one sublattice that holds X and Y
DefaultStruct == <<<<"X", "Y">>>>
Structs(ph) ==
    IF ph = "ALPHA" THEN UNION {[1..n -> SublChoices] : n \in 1..MaxSubl}
    ELSE {DefaultStruct}

\* what the inputs say about one phase: in the database or not, and its
\* status in conditions.phases ("NONE": not listed); the sublattices of a
\* phase that is not active play no part and are the default ones
PhaseOptions(ph) ==
    {[indb |-> TRUE, status |-> "ENTERED", struct |-> st] : st \in Structs(ph)}
    \cup {[indb |-> TRUE, status |-> "SUSPENDED", struct |-> DefaultStruct],
          [indb |-> TRUE, status |-> "NONE", struct |-> DefaultStruct],
          [indb |-> FALSE, status |-> "ENTERED", struct |-> DefaultStruct]}

XfracChoices ==
    {[e \in {TargetOrder[k] : k \in 1..n} |-> 1] : n \in 0..MaxTargets}

Init ==
    /\ \E opt \in [PhaseNames -> UNION {PhaseOptions(p) : p \in PhaseNames}],
          el \in ElementChoices, xf \in XfracChoices :
        /\ \A p \in PhaseNames : opt[p] \in PhaseOptions(p)
        /\ DB = [p \in {q \in PhaseNames : opt[q].indb} |-> opt[p].struct]
        /\ conditions =
             [phases |-> [p \in {q \in PhaseNames : opt[q].status # "NONE"} |-> opt[p].status],
              elements |-> el,
              xfrac |-> xf]
    /\ pc = "start"
    /\ it_i = 1
    /\ it_j = 1
    /\ phase_col = <<>>
    /\ opto_log = <<>>
    /\ main_indices = <<>>
    /\ comp_sets = <<>>
    /\ minima = <<>>
    /\ comp_set_hess = <<>>
    /\ activephases = 0
    /\ constraints = <<>>
    /\ fixed_indices = <<>>
    /\ jac_g_trees = <<>>
    /\ hess_sparsity_structure = {}
    /\ constraint_hessian_data = {}

LogRec(sev, msg, arg) == [sev |-> sev, msg |-> msg, arg |-> arg]

\* lines 43-56: keep the database phases the conditions list as ENTERED,
\* and report an empty element list and an empty phase collection
SelectPhases(db, cond) ==
    SelectSeq(PhaseOrder, LAMBDA p :
        /\ p \in DOMAIN db
        /\ p \in DOMAIN cond.phases
        /\ cond.phases[p] = "ENTERED")

\* lines 55-56: the records logged for an empty element list and for an
\* empty collection of active phases
ConfigReports_dbphases(db, cond, phases) ==
    (IF cond.elements = <<>>
     THEN <<LogRec("critical", "No components entered!", 0)>> ELSE <<>>)
    \o (IF DOMAIN db = {}
        THEN <<LogRec("critical", "No phases found!", 0)>> ELSE <<>>)

ConfigReports(db, cond, phases) ==
    (IF cond.elements = <<>>
     THEN <<LogRec("critical", "No components entered!", 0)>> ELSE <<>>)
    \o (IF phases = <<>>
        THEN <<LogRec("critical", "No phases found!", 0)>> ELSE <<>>)

FilterPhases ==
    /\ pc = "start"
    /\ phase_col' = SelectPhases(DB, conditions)
    /\ opto_log' = opto_log \o ConfigReports(DB, conditions, phase_col')
    /\ pc' = "varmap"
    /\ UNCHANGED <<inputs, it_i, it_j, main_indices, comp_sets, minima, comp_set_hess, activephases,
                   constraints, fixed_indices, jac_g_trees,
                   hess_sparsity_structure, constraint_hessian_data>>

\* line 60
BuildVariableMap ==
    /\ pc = "varmap"
    /\ main_indices' = build_variable_map(phase_col, DB, conditions)
    /\ pc' = "compsets"
    /\ it_i' = 1
    /\ UNCHANGED <<inputs, it_j, phase_col, opto_log, comp_sets, minima, comp_set_hess, activephases,
                   constraints, fixed_indices, jac_g_trees,
                   hess_sparsity_structure, constraint_hessian_data>>

\* a composition set; its starting point is the minimum pinned, if any
CompositionSet(ph) == [phase |-> ph, starting_point |-> <<>>]
set_starting_point(cs, point) == [cs EXCEPT !.starting_point = <<point>>]

\* lines 71-86, one phase: LocateMinima returns the minima 1..n
CompSetStep ==
    /\ pc = "compsets"
    /\ IF it_i > Len(phase_col)
       THEN /\ pc' = "phasefrac"
            /\ UNCHANGED <<it_i, comp_sets, minima, activephases, opto_log>>
       ELSE LET p == phase_col[it_i] IN
            IF conditions.phases[p] # "ENTERED"
            THEN /\ it_i' = it_i + 1
                 /\ UNCHANGED <<pc, comp_sets, minima, activephases, opto_log>>
            ELSE \E n \in MinimaCounts :
                 /\ activephases' = activephases + 1
                 /\ minima' = minima @@ (p :> n)
                 /\ opto_log' = Append(opto_log, LogRec("debug", "minima detected", n))
                 /\ comp_sets' = comp_sets @@
                        (p :> IF n = 1 THEN set_starting_point(CompositionSet(p), 1)
                              ELSE CompositionSet(p))
                 /\ it_i' = it_i + 1
                 /\ pc' = pc
    /\ UNCHANGED <<inputs, it_j, phase_col, main_indices, comp_set_hess, constraints,
                   fixed_indices, jac_g_trees, hess_sparsity_structure,
                   constraint_hessian_data>>

\* line 89
NeedsPhaseFractionBalance_atleastone(n) == n >= 1

NeedsPhaseFractionBalance(n) == n > 1

\* line 95
FixesPhaseFraction(n) == n = 1

\* lines 89-100
PhaseFractionStep ==
    /\ pc = "phasefrac"
    /\ constraints' = IF NeedsPhaseFractionBalance(activephases)
                      THEN addConstraint(constraints, PhaseFractionBalanceConstraint(phase_col))
                      ELSE constraints
    /\ fixed_indices' = IF FixesPhaseFraction(activephases)
                        THEN Append(fixed_indices, main_indices[FracName(phase_col[1])])
                        ELSE fixed_indices
    /\ pc' = "sublattice"
    /\ it_i' = 1
    /\ it_j' = 1
    /\ UNCHANGED <<inputs, phase_col, opto_log, main_indices, comp_sets, minima,
                   comp_set_hess, activephases, jac_g_trees, hess_sparsity_structure,
                   constraint_hessian_data>>

\* line 113
FixesSiteFraction(n) == n = 1

\* line 118
NeedsSublatticeBalance_atleastone(n) == n >= 1

NeedsSublatticeBalance(n) == n > 1

\* lines 103-129, one sublattice of one phase
SublatticeStep ==
    /\ pc = "sublattice"
    /\ IF it_i > Len(phase_col)
       THEN /\ pc' = "massbalance"
            /\ it_i' = 1
            /\ UNCHANGED <<it_j, constraints, fixed_indices>>
       ELSE LET p == phase_col[it_i] IN
            IF conditions.phases[p] # "ENTERED" \/ it_j > Len(DB[p])
            THEN /\ it_i' = it_i + 1
                 /\ it_j' = 1
                 /\ UNCHANGED <<pc, constraints, fixed_indices>>
            ELSE LET subl_list == Tracked(DB[p][it_j], conditions.elements) IN
                 /\ fixed_indices' =
                        IF FixesSiteFraction(Len(subl_list))
                        THEN Append(fixed_indices,
                                    main_indices[SiteName(p, it_j - 1, subl_list[1])])
                        ELSE fixed_indices
                 /\ constraints' =
                        IF NeedsSublatticeBalance(Len(subl_list))
                        THEN addConstraint(constraints,
                                 SublatticeBalanceConstraint(p, it_j - 1, subl_list))
                        ELSE constraints
                 /\ it_j' = it_j + 1
                 /\ UNCHANGED <<pc, it_i>>
    /\ UNCHANGED <<inputs, phase_col, opto_log, main_indices, comp_sets, minima,
                   comp_set_hess, activephases, jac_g_trees, hess_sparsity_structure,
                   constraint_hessian_data>>

\* conditions.xfrac iterates by element name
XfracOrder(cond) == SelectSeq(TargetOrder, LAMBDA e : e \in DOMAIN cond.xfrac)

\* lines 133-135, one target mole fraction
MassBalanceStep ==
    /\ pc = "massbalance"
    /\ IF it_i > Len(XfracOrder(conditions))
       THEN /\ pc' = "jacobian"
            /\ it_i' = 1
            /\ UNCHANGED <<it_j, constraints>>
       ELSE LET e == XfracOrder(conditions)[it_i] IN
            /\ constraints' = addConstraint(constraints,
                   MassBalanceConstraint(phase_col, DB, e, conditions.xfrac[e]))
            /\ it_i' = it_i + 1
            /\ UNCHANGED <<pc, it_j>>
    /\ UNCHANGED <<inputs, phase_col, opto_log, main_indices, comp_sets, minima,
                   comp_set_hess, activephases, fixed_indices, jac_g_trees, hess_sparsity_structure,
                   constraint_hessian_data>>

jacobian_entry(cons_index, var_index, ast) ==
    [cons_index |-> cons_index, var_index |-> var_index, ast |-> ast]

\* lines 150-160: both derivatives are numbers, and the same number
ZeroDetected_noequality(lhs, rhs) == IsNum(lhs) /\ IsNum(rhs)

ZeroDetected(lhs, rhs) == IsNum(lhs) /\ IsNum(rhs) /\ lhs.val = rhs.val

\* line 166: std::distance from cm.constraints.begin() to the k-th constraint
ConsIndex_onebased(k) == k

ConsIndex(k) == k - 1

\* lines 146-168, one constraint: the Jacobian collection after it
JacobianCell(jac, cons, cons_index, name, var_index) ==
    The({IF ZeroDetected(lhs, rhs) THEN jac
         ELSE Append(jac, jacobian_entry(cons_index, var_index, Op("-", lhs, rhs))) :
         lhs \in {simplify_utree(d) : d \in {differentiate_utree(cons.lhs, name)}},
         rhs \in {simplify_utree(d) : d \in {differentiate_utree(cons.rhs, name)}}})

\* lines 145-169: the constraints from the k-th on, for one variable
RECURSIVE JacobianRow(_, _, _, _, _)
JacobianRow(jac, cons, k, name, var_index) ==
    IF k > Len(cons) THEN jac
    ELSE The({JacobianRow(next, cons, k + 1, name, var_index) :
              next \in {JacobianCell(jac, cons[k], ConsIndex(k), name, var_index)}})

\* lines 143-170, one variable
JacobianStep ==
    /\ pc = "jacobian"
    /\ LET order == LeftOrder(phase_col, DB, conditions.elements) IN
       IF it_i > Len(order)
       THEN /\ pc' = "objsparsity"
            /\ it_i' = 1
            /\ UNCHANGED jac_g_trees
       ELSE /\ jac_g_trees' = JacobianRow(jac_g_trees, constraints, 1, order[it_i],
                                          main_indices[order[it_i]])
            /\ it_i' = it_i + 1
            /\ UNCHANGED pc
    /\ UNCHANGED <<inputs, it_j, phase_col, opto_log, main_indices, comp_sets, minima,
                   comp_set_hess, activephases, constraints, fixed_indices,
                   hess_sparsity_structure, constraint_hessian_data>>

\* the variable indices of a phase
PhaseIndices(ph) ==
    {main_indices[nm] : nm \in Range(IndexOrder(<<ph>>, DB, conditions.elements))}

\* CompositionSet::hessian_sparsity_structure: pairs of variable indices of
\* the phase of the composition set
hessian_sparsity_structure(ph, shape) ==
    CASE shape = "none" -> {}
      [] shape = "diagonal" -> {<<n, n>> : n \in PhaseIndices(ph)}

\* comp_sets iterates by phase name
CompSetOrder == SelectSeq(PhaseOrder, LAMBDA p : p \in DOMAIN comp_sets)

\* lines 173-178, one composition set
ObjectiveSparsityStep ==
    /\ pc = "objsparsity"
    /\ IF it_i > Len(CompSetOrder)
       THEN /\ pc' = "hessian"
            /\ it_i' = 1
            /\ UNCHANGED <<it_j, comp_set_hess, hess_sparsity_structure>>
       ELSE \E shape \in SparsityShapes :
            LET p == CompSetOrder[it_i]
                comp_set_hess_sparsity_structure == hessian_sparsity_structure(p, shape)
            IN  /\ comp_set_hess' = comp_set_hess @@ (p :> comp_set_hess_sparsity_structure)
                /\ hess_sparsity_structure' =
                       hess_sparsity_structure \cup comp_set_hess_sparsity_structure
                /\ it_i' = it_i + 1
                /\ UNCHANGED <<pc, it_j>>
    /\ UNCHANGED <<inputs, phase_col, opto_log, main_indices, comp_sets, minima,
                   activephases, constraints, fixed_indices, jac_g_trees,
                   constraint_hessian_data>>

hessian_entry(var_index1, var_index2) ==
    [var_index1 |-> var_index1, var_index2 |-> var_index2, asts |-> <<>>]

\* the entries of the Hessian data with the key (var_index1, var_index2)
HessianFind(data, var_index1, var_index2) ==
    {h \in data : h.var_index1 = var_index1 /\ h.var_index2 = var_index2}

\* lines 192-198: find the record of the pair or insert an empty one, set
\* the AST of the constraint in a copy, and replace the record by the copy
HessianRecord_overwrite(data, var_index1, var_index2, cons_index, ast) ==
    LET found == HessianFind(data, var_index1, var_index2)
        h_entry == [hessian_entry(var_index1, var_index2) EXCEPT !.asts = (cons_index :> ast)]
    IN  (data \ found) \cup {h_entry}

HessianRecord(data, var_index1, var_index2, cons_index, ast) ==
    LET found == HessianFind(data, var_index1, var_index2)
        h_iter == IF found = {} THEN hessian_entry(var_index1, var_index2)
                  ELSE CHOOSE h \in found : TRUE
        h_entry == [h_iter EXCEPT !.asts = (cons_index :> ast) @@ h_iter.asts]
    IN  (data \ {h_iter}) \cup {h_entry}

\* line 184
SkipTriangular_never(var_index, jac_var_index) == FALSE

SkipTriangular(var_index, jac_var_index) == var_index > jac_var_index

\* line 199: the pair added to the sparsity structure
NonzeroList_swapped(i_second, var_index) == <<var_index, i_second>>

NonzeroList(i_second, var_index) == <<i_second, var_index>>

\* lines 184-200, one Jacobian entry: the Hessian data and the sparsity
\* structure after it
HessianCell(hs, j, name, i_second) ==
    IF SkipTriangular(i_second, j.var_index) THEN hs
    ELSE The({IF is_zero_tree(cons_second_deriv) THEN hs
              ELSE [data |-> HessianRecord(hs.data, i_second, j.var_index,
                                           j.cons_index, cons_second_deriv),
                    sparsity |-> hs.sparsity \cup {NonzeroList(i_second, j.var_index)}] :
              cons_second_deriv \in {differentiate_utree(j.ast, name)}})

\* lines 183-203: the Jacobian entries from the k-th on, for one variable
RECURSIVE HessianRow(_, _, _, _, _)
HessianRow(hs, jac, k, name, i_second) ==
    IF k > Len(jac) THEN hs
    ELSE The({HessianRow(next, jac, k + 1, name, i_second) :
              next \in {HessianCell(hs, jac[k], name, i_second)}})

\* lines 181-204, one variable
HessianStep ==
    /\ pc = "hessian"
    /\ LET order == LeftOrder(phase_col, DB, conditions.elements) IN
       IF it_i > Len(order)
       THEN /\ pc' = "done"
            /\ UNCHANGED <<it_i, hess_sparsity_structure, constraint_hessian_data>>
       ELSE /\ \E hs \in {HessianRow([data |-> constraint_hessian_data,
                                        sparsity |-> hess_sparsity_structure],
                                       jac_g_trees, 1, order[it_i],
                                       main_indices[order[it_i]])} :
                   /\ constraint_hessian_data' = hs.data
                   /\ hess_sparsity_structure' = hs.sparsity
            /\ it_i' = it_i + 1
            /\ UNCHANGED pc
    /\ UNCHANGED <<inputs, it_j, phase_col, opto_log, main_indices, comp_sets, minima,
                   comp_set_hess, activephases, constraints, fixed_indices, jac_g_trees>>

Next ==
    \/ FilterPhases
    \/ BuildVariableMap
    \/ CompSetStep
    \/ PhaseFractionStep
    \/ SublatticeStep
    \/ MassBalanceStep
    \/ JacobianStep
    \/ ObjectiveSparsityStep
    \/ HessianStep

Spec == Init /\ [][Next]_vars

\* the inputs with an empty element list or without an active phase
InitInvalid ==
    /\ Init
    /\ \/ conditions.elements = <<>>
       \/ SelectPhases(DB, conditions) = <<>>

\* the constructor on these inputs; it runs to completion, no step of it
\* waiting on anything
InvalidSpec == InitInvalid /\ [][Next]_vars /\ WF_vars(Next)

TypeOK == pc \in {"start", "varmap", "compsets", "phasefrac", "sublattice",
                  "massbalance", "jacobian", "objsparsity", "hessian", "done"}

(***************************************************************************)
(* Vocabulary of the properties, stated on the inputs and the outputs.     *)
(***************************************************************************)
Done == pc = "done"

\* the phases of the database whose status is ENTERED
Active ==
    {p \in DOMAIN DB : p \in DOMAIN conditions.phases /\ conditions.phases[p] = "ENTERED"}

\* the tracked species of sublattice s (1-based) of phase p
TrackedSet(p, s) == Range(DB[p][s]) \cap Range(conditions.elements)

\* the (active phase, sublattice) pairs
SublPairs == {ps \in Active \X (1..MaxSubl) : ps[2] <= Len(DB[ps[1]])}

Positions(kind) == {k \in 1..Len(constraints) : constraints[k].kind = kind}
SublBalances(p, s) ==
    {k \in Positions("SublatticeBalance") :
        constraints[k].key = p /\ constraints[k].subl = s - 1}

Occurrences(seq, x) == Cardinality({k \in 1..Len(seq) : seq[k] = x})

FracIndices == {main_indices[FracName(p)] : p \in Active}

NameOf(index) == CHOOSE nm \in DOMAIN main_indices : main_indices[nm] = index

JacEntries(c, v) ==
    {k \in 1..Len(jac_g_trees) :
        jac_g_trees[k].cons_index = c /\ jac_g_trees[k].var_index = v}

HessianKeys == {<<h.var_index1, h.var_index2>> : h \in constraint_hessian_data}

Rank(kind) ==
    CASE kind = "PhaseFractionBalance" -> 1
      [] kind = "SublatticeBalance" -> 2
      [] kind = "MassBalance" -> 3

(***************************************************************************)
(* C1: once the constructor has finished, there is a Phase-Fraction        *)
(* Balance constraint iff more than one phase is active; with exactly one  *)
(* active phase there is none and the index of its "_FRAC" variable is in  *)
(* the fixed-index list; with any other number of active phases no         *)
(* phase-fraction index is in the fixed-index list.                        *)
(***************************************************************************)
C1_PhaseFractionBalance ==
    Done =>
        /\ (Positions("PhaseFractionBalance") # {}) <=> (Cardinality(Active) > 1)
        /\ Cardinality(Positions("PhaseFractionBalance")) <= 1
        /\ Cardinality(Active) = 1 =>
               /\ Positions("PhaseFractionBalance") = {}
               /\ \A p \in Active :
                      Occurrences(fixed_indices, main_indices[FracName(p)]) = 1
        /\ Cardinality(Active) # 1 =>
               \A k \in 1..Len(fixed_indices) : fixed_indices[k] \notin FracIndices

C1_Witness ==
    /\ Done
    /\ Cardinality(Active) = 1
    /\ \E p \in Active : \E k \in 1..Len(fixed_indices) :
           fixed_indices[k] = main_indices[FracName(p)]

(***************************************************************************)
(* C2: for every (active phase, sublattice) pair with tracked species T:   *)
(* T empty adds nothing; T a single species appends the index of its       *)
(* site-fraction variable to the fixed-index list and adds no constraint;  *)
(* T larger adds exactly one Sublattice Balance constraint over exactly    *)
(* the species of T and fixes nothing.  One active phase with one          *)
(* sublattice holding one tracked species gives no balance constraint and  *)
(* exactly two fixed indices.                                              *)
(***************************************************************************)
C2_SublatticeBalance ==
    Done =>
        /\ \A ps \in SublPairs :
            LET p == ps[1]
                s == ps[2]
                T == TrackedSet(p, s)
                names == {SiteName(p, s - 1, k) : k \in T}
            IN  /\ names \subseteq DOMAIN main_indices
                /\ Cardinality(T) = 0 => SublBalances(p, s) = {}
                /\ Cardinality(T) = 1 =>
                       /\ SublBalances(p, s) = {}
                       /\ \A nm \in names :
                              Occurrences(fixed_indices, main_indices[nm]) = 1
                /\ Cardinality(T) > 1 =>
                       /\ Cardinality(SublBalances(p, s)) = 1
                       /\ \A k \in SublBalances(p, s) :
                              /\ TreeVars(constraints[k].lhs) = names
                              /\ constraints[k].rhs = Num(1)
                       /\ \A nm \in names : Occurrences(fixed_indices, main_indices[nm]) = 0
        /\ Cardinality(Positions("SublatticeBalance")) =
               Cardinality({ps \in SublPairs : Cardinality(TrackedSet(ps[1], ps[2])) > 1})
        /\ Len(fixed_indices) =
               (IF Cardinality(Active) = 1 THEN 1 ELSE 0)
               + Cardinality({ps \in SublPairs : Cardinality(TrackedSet(ps[1], ps[2])) = 1})
        /\ (/\ Cardinality(Active) = 1
            /\ \A p \in Active : Len(DB[p]) = 1 /\ Cardinality(TrackedSet(p, 1)) = 1)
           => /\ Positions("PhaseFractionBalance") \cup Positions("SublatticeBalance") = {}
              /\ Len(fixed_indices) = 2

C2_Witness ==
    /\ Done
    /\ Cardinality(Active) = 1
    /\ \A p \in Active : Len(DB[p]) = 1 /\ Cardinality(TrackedSet(p, 1)) = 1
    /\ Len(fixed_indices) = 2

(***************************************************************************)
(* C3: the constraints are inserted as Phase-Fraction Balance, then the    *)
(* Sublattice Balances, then the Mass Balances, one per target mole        *)
(* fraction, so that every Mass Balance has a higher index than every      *)
(* mandatory constraint; the constraint index of a Jacobian or Hessian     *)
(* entry is the position of its constraint in this order.                  *)
(***************************************************************************)
C3_InsertionOrder ==
    /\ \A k1, k2 \in 1..Len(constraints) :
           k1 < k2 => Rank(constraints[k1].kind) <= Rank(constraints[k2].kind)
    /\ pc \in {"jacobian", "objsparsity", "hessian", "done"} =>
           /\ Cardinality(Positions("MassBalance")) = Cardinality(DOMAIN conditions.xfrac)
           /\ \A e \in DOMAIN conditions.xfrac :
                  Cardinality({k \in Positions("MassBalance") : constraints[k].key = e}) = 1
    /\ Done =>
           /\ \A k \in 1..Len(jac_g_trees) :
                  LET e == jac_g_trees[k] IN
                  /\ e.cons_index \in 0..(Len(constraints) - 1)
                  /\ e.ast = Op("-",
                         simplify_utree(differentiate_utree(
                             constraints[e.cons_index + 1].lhs, NameOf(e.var_index))),
                         simplify_utree(differentiate_utree(
                             constraints[e.cons_index + 1].rhs, NameOf(e.var_index))))
           /\ \A h \in constraint_hessian_data : \A c \in DOMAIN h.asts :
                  /\ c \in 0..(Len(constraints) - 1)
                  /\ h.asts[c] = differentiate_utree(
                         Op("-",
                            simplify_utree(differentiate_utree(
                                constraints[c + 1].lhs, NameOf(h.var_index2))),
                            simplify_utree(differentiate_utree(
                                constraints[c + 1].rhs, NameOf(h.var_index2)))),
                         NameOf(h.var_index1))

C3_Witness ==
    /\ Done
    /\ Positions("PhaseFractionBalance") # {}
    /\ Positions("SublatticeBalance") # {}
    /\ Cardinality(Positions("MassBalance")) > 1
    /\ \E k \in 1..Len(jac_g_trees) :
           constraints[jac_g_trees[k].cons_index + 1].kind = "MassBalance"
    /\ \E h \in constraint_hessian_data : DOMAIN h.asts # {}

(***************************************************************************)
(* C4: after the Jacobian assembly there is at most one Jacobian entry per *)
(* (constraint, variable), and there is one exactly when it is not the     *)
(* case that the simplified derivatives of lhs and rhs are both numeric    *)
(* constants and equal; the entry stores lhs' - rhs' with the index of the *)
(* constraint and the index of the variable.                               *)
(***************************************************************************)
C4_JacobianEntries ==
    Done =>
        /\ \A nm \in DOMAIN main_indices : \A c \in 1..Len(constraints) :
            LET lhs == simplify_utree(differentiate_utree(constraints[c].lhs, nm))
                rhs == simplify_utree(differentiate_utree(constraints[c].rhs, nm))
                both == lhs.op = "num" /\ rhs.op = "num" /\ lhs.val = rhs.val
                found == JacEntries(c - 1, main_indices[nm])
            IN  /\ Cardinality(found) <= 1
                /\ (found # {}) <=> ~both
                /\ \A k \in found : jac_g_trees[k].ast = Op("-", lhs, rhs)
        /\ \A k \in 1..Len(jac_g_trees) :
               /\ jac_g_trees[k].cons_index \in 0..(Len(constraints) - 1)
               /\ \E nm \in DOMAIN main_indices :
                      main_indices[nm] = jac_g_trees[k].var_index

\* a derivative pair that was dropped, one that was kept with a numeric
\* lhs', and one kept with a symbolic lhs'
C4_Witness ==
    /\ Done
    /\ \E nm \in DOMAIN main_indices : \E c \in 1..Len(constraints) :
           JacEntries(c - 1, main_indices[nm]) = {}
    /\ \E k \in 1..Len(jac_g_trees) : jac_g_trees[k].ast.args[1].op = "num"
    /\ \E k \in 1..Len(jac_g_trees) : jac_g_trees[k].ast.args[1].op \notin {"num", "var"}

(***************************************************************************)
(* C5, on the constraints the constructor builds: the derivative tree of   *)
(* every retained Jacobian entry does not simplify to the zero constant    *)
(* under the exact-zero test (is_zero_tree).  Every constraint of lines    *)
(* 88-135 has a constant right-hand side, so the derivative of the right   *)
(* side is the constant 0 in every entry: the case of two symbolic         *)
(* derivatives does not occur in a run of the constructor.                 *)
(***************************************************************************)
C5_JacobianNonzero ==
    \A k \in 1..Len(jac_g_trees) :
        /\ ~is_zero_tree(jac_g_trees[k].ast)
        /\ jac_g_trees[k].ast.args[2] = Num(0)

\* the pass has kept an entry with a symbolic and one with a constant
\* derivative of the left side, and has dropped a pair
C5_Witness ==
    /\ Done
    /\ \E k \in 1..Len(jac_g_trees) : ~IsNum(jac_g_trees[k].ast.args[1])
    /\ \E k \in 1..Len(jac_g_trees) : IsNum(jac_g_trees[k].ast.args[1])
    /\ \E nm \in DOMAIN main_indices : \E c \in 1..Len(constraints) :
           JacEntries(c - 1, main_indices[nm]) = {}

(***************************************************************************)
(* C6: at every point of the Hessian pass and after it, the key (i, j) of  *)
(* every Hessian entry has i <= j, j being the variable of a Jacobian      *)
(* entry and i the variable differentiated by.                             *)
(***************************************************************************)
C6_HessianTriangular ==
    \A h \in constraint_hessian_data :
        /\ h.var_index1 <= h.var_index2
        /\ \E k \in 1..Len(jac_g_trees) : jac_g_trees[k].var_index = h.var_index2
        /\ \E nm \in DOMAIN main_indices : main_indices[nm] = h.var_index1

\* in the middle of the pass, after a variable whose index is above the
\* index of the variable of some Jacobian entry has taken its turn
C6_Witness ==
    /\ pc = "hessian"
    /\ it_i > 1
    /\ \E h \in constraint_hessian_data : h.var_index1 < h.var_index2
    /\ \E n \in 1..(it_i - 1) : \E k \in 1..Len(jac_g_trees) :
           /\ main_indices[LeftOrder(phase_col, DB, conditions.elements)[n]]
                  > jac_g_trees[k].var_index
           /\ simplify_utree(differentiate_utree(jac_g_trees[k].ast,
                  LeftOrder(phase_col, DB, conditions.elements)[n])) # Num(0)

(***************************************************************************)
(* C7: when the minima locator returns more than one minimum for a phase,  *)
(* the construction flags or rejects the case; when it returns exactly     *)
(* one, that minimum is the starting point of the composition set.         *)
(***************************************************************************)
MultiMinimaFlagged ==
    \E k \in 1..Len(opto_log) : opto_log[k].sev # "debug" /\ opto_log[k].arg > 1

C7_MultiMinimaFlagged ==
    Done => \A p \in DOMAIN minima :
        /\ minima[p] > 1 => MultiMinimaFlagged
        /\ minima[p] = 1 => comp_sets[p].starting_point = <<1>>

(***************************************************************************)
(* C8: an empty element list and an empty set of active phases are each    *)
(* reported at critical severity, and the construction goes on through     *)
(* every later stage to its end; with no active phase it adds no           *)
(* Phase-Fraction Balance, no Sublattice Balance and no fixed index, and   *)
(* one Mass Balance per target.                                            *)
(***************************************************************************)
Reported(msg) ==
    \E k \in 1..Len(opto_log) : opto_log[k].sev = "critical" /\ opto_log[k].msg = msg

C8_Outcome ==
    /\ pc # "start" =>
           /\ conditions.elements = <<>> <=> Reported("No components entered!")
           /\ Active = {} <=> Reported("No phases found!")
    /\ Done /\ Active = {} =>
           /\ Positions("PhaseFractionBalance") = {}
           /\ Positions("SublatticeBalance") = {}
           /\ fixed_indices = <<>>
           /\ Cardinality(Positions("MassBalance")) = Cardinality(DOMAIN conditions.xfrac)
           /\ Len(constraints) = Cardinality(DOMAIN conditions.xfrac)

C8_ReportedNotAborted ==
    /\ []C8_Outcome
    /\ (conditions.elements = <<>> \/ Active = {}) ~> Done

C8_Witness ==
    /\ Done
    /\ Active = {}
    /\ DOMAIN DB # {}
    /\ Reported("No phases found!")
    /\ Len(constraints) = 2

(***************************************************************************)
(* C9: after the Hessian pass the entry of the pair (i, v) holds a tree    *)
(* under constraint c exactly when there is a Jacobian entry (c, v),       *)
(* i <= v, and the derivative of its tree by variable i is not a provable  *)
(* zero; contributions of several constraints to one pair are all kept;    *)
(* there is at most one entry per pair and none with an empty map.         *)
(***************************************************************************)
C9_HessianEntries ==
    /\ \A h1, h2 \in constraint_hessian_data :
           (h1.var_index1 = h2.var_index1 /\ h1.var_index2 = h2.var_index2) => h1 = h2
    /\ \A h \in constraint_hessian_data : DOMAIN h.asts # {}
    /\ Done =>
        /\ \A h \in constraint_hessian_data : \A c \in DOMAIN h.asts :
            /\ h.var_index1 <= h.var_index2
            /\ Cardinality(JacEntries(c, h.var_index2)) = 1
            /\ \A k \in JacEntries(c, h.var_index2) :
                LET d == differentiate_utree(jac_g_trees[k].ast, NameOf(h.var_index1))
                IN  simplify_utree(d) # Num(0) /\ h.asts[c] = d
        /\ \A k \in 1..Len(jac_g_trees) : \A nm \in DOMAIN main_indices :
            LET e == jac_g_trees[k]
                d == differentiate_utree(e.ast, nm)
            IN  (main_indices[nm] <= e.var_index /\ simplify_utree(d) # Num(0)) =>
                    \E h \in constraint_hessian_data :
                        /\ h.var_index1 = main_indices[nm]
                        /\ h.var_index2 = e.var_index
                        /\ e.cons_index \in DOMAIN h.asts
                        /\ h.asts[e.cons_index] = d

\* a pair with the contributions of two constraints, a pair skipped for
\* i > v, and a pair skipped for a zero second derivative
C9_Witness ==
    /\ Done
    /\ \E h \in constraint_hessian_data : Cardinality(DOMAIN h.asts) > 1
    /\ \E k \in 1..Len(jac_g_trees) : \E nm \in DOMAIN main_indices :
           /\ main_indices[nm] > jac_g_trees[k].var_index
           /\ simplify_utree(differentiate_utree(jac_g_trees[k].ast, nm)) # Num(0)
    /\ \E k \in 1..Len(jac_g_trees) : \E nm \in DOMAIN main_indices :
           /\ main_indices[nm] <= jac_g_trees[k].var_index
           /\ simplify_utree(differentiate_utree(jac_g_trees[k].ast, nm)) = Num(0)

(***************************************************************************)
(* C10: the sparsity structure is exactly the union of the pairs reported  *)
(* by the composition sets and the key pairs of the Hessian entries, at    *)
(* every point, and after construction every composition set has           *)
(* reported.                                                               *)
(***************************************************************************)
C10_SparsityUnion ==
    /\ hess_sparsity_structure =
           UNION {comp_set_hess[p] : p \in DOMAIN comp_set_hess} \cup HessianKeys
    /\ pc \in {"hessian", "done"} => DOMAIN comp_set_hess = Active

C10_Witness ==
    /\ Done
    /\ \E p \in DOMAIN comp_set_hess : comp_set_hess[p] \ HessianKeys # {}
    /\ \E p \in DOMAIN comp_set_hess : comp_set_hess[p] \cap HessianKeys # {}
    /\ HessianKeys \ UNION {comp_set_hess[p] : p \in DOMAIN comp_set_hess} # {}
====
